---- MODULE Spec2Model ----
(***************************************************************************)
(* Model of the concept-discovery workflow of agents/cd/find_concepts.py:  *)
(* the bounded queue exploration of one concept set                        *)
(* (_process_single_concept_set and its helpers) and the parallel          *)
(* orchestrator (run_intelligent_concept_discovery).                       *)
(*                                                                         *)
(* The vocabulary gateway, the candidate selector and the concept analyzer *)
(* are external: every answer they can give is a nondeterministic input.   *)
(***************************************************************************)
EXTENDS Integers, Sequences, FiniteSets, TLC

\* ------------------------------------------------------------------ bounds
NumIds == 3          \* concept IDs are 1..NumIds
MaxSeeds == 2        \* longest search-result / candidate list
MaxDepthCfg == 1     \* largest max_depth tried
MaxVisitsCfg == 2    \* largest max_visits tried
MaxBatchCfg == 2     \* largest batch_size tried
MaxDecisions == 2    \* longest decision list the analyzer returns
MaxSuggest == 1      \* longest suggested_new_candidates list
NumSets == 3         \* concept sets of one plan
MaxCost == 2         \* largest estimated cost and cost limit tried
NumWorkers == 2      \* threads that call the cached gateway functions
MaxCalls == 3        \* calls of the cached gateway functions in one run
MaxCacheSize == 2    \* largest maxsize of an LRU cache tried
MaxQueryLen == 2     \* longest search query, in characters

\* ------------------------------------------------------- program constants
MAX_ACCEPTED_PER_SET == 3
HISTORY_LIMIT == 120
MAX_ROW_LIMIT == 1000

Ids == 1..NumIds
ConceptSets == 1..NumSets
NoReason == "None"

VARIABLES
  \* position of the worker in _process_single_concept_set
  pc,
  \* configuration snapshot of QueueState
  max_depth, max_visits, batch_size,
  \* environment: TRUE when every Vocabulary Gateway call fails; the scripted
  \* answer of the analyzer (<<>> when it is free to give any answer); TRUE once
  \* the wall clock is more than PER_SET_TIME_LIMIT_SEC past start_time
  gateway_down, oracle, budget_exceeded,
  \* QueueState
  pending, visited, depth_map, history, qs_iteration, visit_count, resolved,
  best_fallback, stop_reason, evidence, last_head_id, stagnation_count,
  accepted_concepts,
  \* locals of the main loop
  iteration, ids, depths, concepts, short_circuit,
  \* what the worker produced
  outcome, result,
  \* orchestrator: state of each future, and the collected list
  futures, final_concept_sets, orch_pc,
  \* query_by_concepts: the call's arguments, the config it reads, its
  \* position, its locals limit (q_limit), sql and validation, the calls it made on the
  \* backend, what it returned and the error it raised
  request, config, q_pc, q_limit, sql, validation, backend_calls, query_result, q_error,
  \* tools.py: whether athena-client is installed, the maxsize and the entries of
  \* the two LRU caches (least recently used first), the call each thread has
  \* in progress in a cached function, the calls made, the times the gateway
  \* was contacted, and what the last finished call returned
  athena_available, cache_maxsize, cache, in_flight, calls_made, gateway_calls,
  returned,
  \* history variable: the failures calls have returned, each kept until the
  \* entry of its key is evicted or the caches are cleared
  failures_returned

cfgVars == <<max_depth, max_visits, batch_size, gateway_down, oracle, budget_exceeded>>
queueVars == <<pending, visited, depth_map, history, qs_iteration, visit_count,
               resolved, best_fallback, stop_reason, evidence, last_head_id,
               stagnation_count, accepted_concepts>>
loopVars == <<iteration, ids, depths, concepts, short_circuit>>
workerVars == <<pc, cfgVars, queueVars, loopVars, outcome, result>>
orchVars == <<futures, final_concept_sets, orch_pc>>
queryVars == <<request, config, q_pc, q_limit, sql, validation, backend_calls,
               query_result, q_error>>
cacheVars == <<athena_available, cache_maxsize, cache, in_flight, calls_made,
               gateway_calls, returned, failures_returned>>
vars == <<workerVars, orchVars, queryVars, cacheVars>>

\* ----------------------------------------------------------------- helpers
Min(a, b) == IF a <= b THEN a ELSE b
Max(a, b) == IF a >= b THEN a ELSE b
SeqsUpTo(S, n) == UNION {[1..k -> S] : k \in 0..n}
Contains(seq, x) == \E i \in DOMAIN seq : seq[i] = x
Elems(seq) == {seq[i] : i \in DOMAIN seq}
QueueItem(cid, d) == [concept_id |-> cid, depth |-> d]
PendingIds(p) == [i \in DOMAIN p |-> p[i].concept_id]

\* ------------------------------------------------- gateway payloads (model)
\* The "details" dict of one fetched concept.  A failed or empty lookup is the
\* empty dict; otherwise conceptId is the requested ID and "match" abstracts the
\* attributes the short-circuit rule reads (standard flag, names, vocabulary and
\* class): "exact", "strong_token", or "none" when the rule does not accept it.
EmptyDetails == [present |-> FALSE, conceptId |-> 0, match |-> "none"]
DetailsOf(cid, m) == [present |-> TRUE, conceptId |-> cid, match |-> m]
DetailKinds == {"missing", "none", "exact", "strong_token"}
Details(cid, kind) == IF kind = "missing" THEN EmptyDetails ELSE DetailsOf(cid, kind)
ConceptData(cid, details) == [concept_id |-> cid, details |-> details]

\* ConceptDecision: concept_id, is_standard, is_correct_for_term,
\* suggested_new_candidates (relationship_hint and reasoning are only printed).
\* Only the conjunction of the two flags is read (line 659) and the concept_id of
\* a decision is read only when the conjunction holds (lines 662-667), so the
\* negative decisions are represented by the ones that name the first concept ID.
Decisions ==
  {[concept_id |-> c, is_standard |-> TRUE, is_correct_for_term |-> TRUE,
    suggested_new_candidates |-> s] : c \in Ids, s \in SeqsUpTo(Ids, MaxSuggest)}
  \cup
  {[concept_id |-> 1, is_standard |-> b, is_correct_for_term |-> FALSE,
    suggested_new_candidates |-> s] : b \in BOOLEAN, s \in SeqsUpTo(Ids, MaxSuggest)}
\* A variant whose synthesized decision accepts the concept.
FallbackDecision_positive(cid) ==
  [concept_id |-> cid, is_standard |-> TRUE, is_correct_for_term |-> TRUE,
   suggested_new_candidates |-> <<>>]

\* the decision synthesized for a batch concept when the analyzer call fails
FallbackDecision(cid) ==
  [concept_id |-> cid, is_standard |-> FALSE, is_correct_for_term |-> FALSE,
   suggested_new_candidates |-> <<>>]

\* ------------------------------------------------------ _included_from_details
\* cid = details.get("conceptId") or concept_id; the remaining fields of the
\* entry are copies of the details and play no part in the queue logic.
included_from_details(concept_id, details) ==
  [concept_id |-> IF details.conceptId # 0 THEN details.conceptId ELSE concept_id]

\* ------------------------------------------------ _try_short_circuit_resolution
\* the first concept of the batch, in batch order, that the rule accepts
try_short_circuit_resolution(cs) ==
  LET hits == {i \in DOMAIN cs : cs[i].details.match \in {"exact", "strong_token"}}
  IN IF hits = {} THEN <<>>
     ELSE LET i == CHOOSE j \in hits : \A k \in hits : j <= k
          IN <<[concept_id |-> cs[i].concept_id,
                evidence |-> [match_type |-> cs[i].details.match]]>>

\* A variant that waits for the analyzer instead of accepting the hit.
AcceptShortCircuit_deferred(accepted, cs, sc) == accepted

\* lines 883-894: the accepted list after a short-circuit hit sc
AcceptShortCircuit(accepted, cs, sc) ==
  LET sc_id == sc.concept_id
      found == {i \in DOMAIN cs : cs[i].concept_id = sc_id}
  IN IF found = {} THEN accepted
     ELSE LET i == CHOOSE j \in found : \A k \in found : j <= k
              inc == included_from_details(sc_id, cs[i].details)
          IN IF \A x \in DOMAIN accepted : accepted[x].concept_id # sc_id
             THEN Append(accepted, inc)
             ELSE accepted

\* ------------------------------------------------------------ _queue_next_batch
RECURSIVE TakeBatch(_, _, _, _)
\* the loop of lines 613-618; acc = [ids, depths, new_pending]
TakeBatch(p, effective_batch, md, acc) ==
  IF p = <<>> THEN acc
  ELSE LET item == Head(p)
       IN IF Len(acc.ids) < effective_batch /\ item.depth <= md
          THEN TakeBatch(Tail(p), effective_batch, md,
                         [acc EXCEPT !.ids = Append(@, item.concept_id),
                                     !.depths = Append(@, item.depth)])
          ELSE TakeBatch(Tail(p), effective_batch, md,
                         [acc EXCEPT !.new_pending = Append(@, item)])

NoBatch(p, limit, depth_hit) ==
  [ids |-> <<>>, depths |-> <<>>, has_batch |-> FALSE, limit_reached |-> limit,
   depth_limit_hit |-> depth_hit, pending |-> p, advanced |-> FALSE]

\* A variant that does not cap the batch by the remaining visit slots.
queue_next_batch_uncapped(p, vc, mv, md, bs, res) ==
  IF res THEN NoBatch(p, FALSE, FALSE)
  ELSE IF vc >= mv THEN NoBatch(p, TRUE, FALSE)
  ELSE IF p = <<>> THEN NoBatch(p, FALSE, FALSE)
  ELSE IF p[1].depth > md THEN NoBatch(p, FALSE, TRUE)
  ELSE LET t == TakeBatch(p, bs, md, [ids |-> <<>>, depths |-> <<>>, new_pending |-> <<>>])
       IN [ids |-> t.ids, depths |-> t.depths, has_batch |-> t.ids # <<>>,
           limit_reached |-> FALSE, depth_limit_hit |-> FALSE,
           pending |-> t.new_pending, advanced |-> TRUE]

\* A variant without the depth tests of lines 593 and 614.
queue_next_batch_any_depth(p, vc, mv, md, bs, res) ==
  IF res THEN NoBatch(p, FALSE, FALSE)
  ELSE IF vc >= mv THEN NoBatch(p, TRUE, FALSE)
  ELSE IF p = <<>> THEN NoBatch(p, FALSE, FALSE)
  ELSE LET n == Min(Len(p), Max(0, Min(bs, mv - vc)))
       IN [ids |-> [i \in 1..n |-> p[i].concept_id],
           depths |-> [i \in 1..n |-> p[i].depth], has_batch |-> n > 0,
           limit_reached |-> FALSE, depth_limit_hit |-> FALSE,
           pending |-> SubSeq(p, n + 1, Len(p)), advanced |-> TRUE]

\* A variant that forgets the queued items it did not take.
queue_next_batch_forgetful(p, vc, mv, md, bs, res) ==
  IF res THEN NoBatch(p, FALSE, FALSE)
  ELSE IF vc >= mv THEN NoBatch(p, TRUE, FALSE)
  ELSE IF p = <<>> THEN NoBatch(p, FALSE, FALSE)
  ELSE IF p[1].depth > md THEN NoBatch(p, FALSE, TRUE)
  ELSE LET t == TakeBatch(p, Min(bs, mv - vc), md,
                          [ids |-> <<>>, depths |-> <<>>, new_pending |-> <<>>])
       IN [ids |-> t.ids, depths |-> t.depths, has_batch |-> t.ids # <<>>,
           limit_reached |-> FALSE, depth_limit_hit |-> FALSE,
           pending |-> <<>>, advanced |-> TRUE]

\* The result dict of _queue_next_batch, with the new pending list and whether
\* lines 620-621 ran (pending replaced, queue_state.iteration incremented).
queue_next_batch(p, vc, mv, md, bs, res) ==
  IF res THEN NoBatch(p, FALSE, FALSE)
  ELSE IF vc >= mv THEN NoBatch(p, TRUE, FALSE)
  ELSE IF p = <<>> THEN NoBatch(p, FALSE, FALSE)
  ELSE IF p[1].depth > md THEN NoBatch(p, FALSE, TRUE)
  ELSE LET remaining_slots == mv - vc
           effective_batch == Min(bs, remaining_slots)
           t == TakeBatch(p, effective_batch, md,
                          [ids |-> <<>>, depths |-> <<>>, new_pending |-> <<>>])
       IN [ids |-> t.ids, depths |-> t.depths, has_batch |-> t.ids # <<>>,
           limit_reached |-> FALSE, depth_limit_hit |-> FALSE,
           pending |-> t.new_pending, advanced |-> TRUE]

\* ----------------------------------------------------- _update_queue_from_batch
\* A variant that dispatches the batch without recording it as visited.
MarkVisited_none(vis, batch) == vis

RECURSIVE MarkVisited(_, _)
\* lines 646-648: append each batch ID that is not yet in visited
MarkVisited(vis, batch) ==
  IF batch = <<>> THEN vis
  ELSE MarkVisited(IF Contains(vis, Head(batch)) THEN vis ELSE Append(vis, Head(batch)),
                   Tail(batch))

\* A variant that forgets to count the dispatched concepts.
CountVisits_none(vc, batch) == vc

\* line 649: visit_count += 1 for every ID of the batch
CountVisits(vc, batch) == vc + Len(batch)

\* lines 652-655: drop the processed IDs from pending
RemoveProcessed(p, batch) ==
  SelectSeq(p, LAMBDA item : ~Contains(batch, item.concept_id))

RECURSIVE CollectAccepted(_, _, _, _)
\* lines 658-670, from decision i on: a positive decision appends the entry built
\* from the details of the batch concept at the same index, unless an accepted
\* entry already has the decision's concept_id
CollectAccepted(accepted, decs, cs, i) ==
  IF i > Len(decs) THEN accepted
  ELSE LET decision == decs[i]
           details == IF i <= Len(cs) THEN cs[i].details ELSE EmptyDetails
           inc == included_from_details(decision.concept_id, details)
       IN IF decision.is_standard /\ decision.is_correct_for_term
             /\ \A x \in DOMAIN accepted : accepted[x].concept_id # decision.concept_id
          THEN CollectAccepted(Append(accepted, inc), decs, cs, i + 1)
          ELSE CollectAccepted(accepted, decs, cs, i + 1)

\* A variant that queues a suggestion without looking at visited.
MayEnqueue_ignoring_visited(suggested_id, vis, p) ==
  ~Contains(PendingIds(p), suggested_id)

\* lines 676-678: a suggestion is new when it is neither visited nor pending
MayEnqueue(suggested_id, vis, p) ==
  ~Contains(vis, suggested_id) /\ ~Contains(PendingIds(p), suggested_id)

\* A variant that lets a child one level beyond the bound into the queue.
WithinDepth_off_by_one(child_depth, md) == child_depth <= md + 1

\* line 680: the depth test of a suggested child
WithinDepth(child_depth, md) == child_depth <= md

RECURSIVE AddSuggested(_, _, _, _, _, _, _)
\* lines 673-684, from suggestion j of decision i on; q = [pending, depth_map]
AddSuggested(q, vis, decs, ds, md, i, j) ==
  IF i > Len(decs) THEN q
  ELSE IF j > Len(decs[i].suggested_new_candidates)
       THEN AddSuggested(q, vis, decs, ds, md, i + 1, 1)
  ELSE LET depth == IF i <= Len(ds) THEN ds[i] ELSE 0
           suggested_id == decs[i].suggested_new_candidates[j]
           child_depth == depth + 1
       IN IF MayEnqueue(suggested_id, vis, q.pending) /\ WithinDepth(child_depth, md)
          THEN AddSuggested(
                 [pending |-> Append(q.pending, QueueItem(suggested_id, child_depth)),
                  depth_map |-> [k \in DOMAIN q.depth_map \cup {suggested_id} |->
                                   IF k = suggested_id THEN child_depth
                                   ELSE q.depth_map[k]]],
                 vis, decs, ds, md, i, j + 1)
          ELSE AddSuggested(q, vis, decs, ds, md, i, j + 1)

\* A variant that remembers the first rejected concept as the fallback.
BestFallbackAfterUpdate_recording(fallback, decs) ==
  LET rejected == {i \in DOMAIN decs :
                     ~(decs[i].is_standard /\ decs[i].is_correct_for_term)}
  IN IF fallback = <<>> /\ rejected # {}
     THEN <<[concept_id |-> decs[CHOOSE i \in rejected : \A k \in rejected : i <= k].concept_id]>>
     ELSE fallback

\* best_fallback after an iteration: neither the update nor the loop body
\* assigns it
BestFallbackAfterUpdate(fallback, decs) == fallback

\* the fields of QueueState after _update_queue_from_batch
update_queue_from_batch(qs, batch, ds, cs, decs) ==
  LET vis == MarkVisited(qs.visited, batch)
      q == AddSuggested([pending |-> RemoveProcessed(qs.pending, batch),
                         depth_map |-> qs.depth_map],
                        vis, decs, ds, qs.max_depth, 1, 1)
  IN [visited |-> vis,
      visit_count |-> CountVisits(qs.visit_count, batch),
      pending |-> q.pending,
      depth_map |-> q.depth_map,
      accepted_concepts |-> CollectAccepted(qs.accepted_concepts, decs, cs, 1)]

\* ---------------------------------------------------------- _finalize_resolution
\* A variant that reports a set with accepted concepts as unresolved.
finalize_resolution_swapped(accepted, fallback, vc, reason, p, hist, ev) ==
  [status |-> IF accepted = <<>> /\ fallback = <<>> THEN "resolved"
              ELSE IF accepted = <<>> THEN "fallback" ELSE "unresolved",
   concept |-> <<>>,
   reason |-> reason,
   visit_count |-> vc,
   stop_reason |-> reason,
   pending_candidates |-> PendingIds(p),
   history |-> hist,
   evidence |-> ev,
   accepted_concepts |-> accepted]

\* ResolutionOutcome built from the queue state (best_fallback and concept are
\* <<>> for None, a one-element sequence otherwise)
finalize_resolution(accepted, fallback, vc, reason, p, hist, ev) ==
  IF accepted # <<>> THEN
    [status |-> "resolved",
     concept |-> <<>>,
     reason |-> IF reason # NoReason THEN reason ELSE "accepted_matches",
     visit_count |-> vc,
     stop_reason |-> reason,
     pending_candidates |-> PendingIds(p),
     history |-> hist,
     evidence |-> ev,
     accepted_concepts |-> accepted]
  ELSE IF fallback # <<>> THEN
    [status |-> "fallback",
     concept |-> fallback,
     reason |-> "best_nonstandard_match",
     visit_count |-> vc,
     stop_reason |-> reason,
     pending_candidates |-> PendingIds(p),
     history |-> hist,
     evidence |-> ev,
     accepted_concepts |-> <<>>]
  ELSE
    [status |-> "unresolved",
     concept |-> <<>>,
     reason |-> IF reason # NoReason THEN reason ELSE "exhausted",
     visit_count |-> vc,
     stop_reason |-> reason,
     pending_candidates |-> PendingIds(p),
     history |-> hist,
     evidence |-> ev,
     accepted_concepts |-> <<>>]

\* ------------------------------------------------------ concept-set result dicts
\* lines 775-781 and 1059-1065: the entry without a resolution outcome
EmptyConceptSet(name) ==
  [name |-> name, included_concepts |-> <<>>, excluded_concepts |-> <<>>]

\* lines 960-971: the entry built from the outcome
ConceptSetResult(name, oc) ==
  [name |-> name,
   included_concepts |-> IF oc.status = "resolved" /\ oc.accepted_concepts # <<>>
                         THEN oc.accepted_concepts ELSE <<>>,
   excluded_concepts |-> <<>>,
   resolution_outcome |-> oc]

\* ============================================================================
\* _process_single_concept_set: one worker
\* ============================================================================
SetName == "concept_set"

\* QueueState defaults (lines 137-158) before the queue is built
InitWorker ==
  /\ pc = "search"
  /\ max_depth \in -1..MaxDepthCfg
  /\ max_visits \in 0..MaxVisitsCfg
  /\ batch_size \in 1..MaxBatchCfg
  /\ gateway_down \in BOOLEAN /\ oracle = <<>> /\ budget_exceeded = FALSE
  /\ pending = <<>> /\ visited = <<>> /\ depth_map = <<>> /\ history = <<>>
  /\ qs_iteration = 0 /\ visit_count = 0 /\ resolved = FALSE
  /\ best_fallback = <<>> /\ stop_reason = NoReason /\ evidence = <<>>
  /\ last_head_id = <<>> /\ stagnation_count = 0 /\ accepted_concepts = <<>>
  /\ iteration = 0 /\ ids = <<>> /\ depths = <<>> /\ concepts = <<>>
  /\ short_circuit = <<>>
  /\ outcome = <<>> /\ result = <<>>

OrchIdle == futures = <<>> /\ final_concept_sets = <<>> /\ orch_pc = "idle"

\* no call of query_by_concepts is in progress
QueryIdle ==
  /\ q_pc = "idle" /\ request = <<>> /\ config = <<>> /\ q_limit = 0 /\ sql = <<>>
  /\ validation = <<>> /\ backend_calls = <<>> /\ query_result = <<>>
  /\ q_error = <<>>

\* no thread is in a cached gateway function and both caches are empty
CacheNames == {"search", "details"}
CacheIdle ==
  /\ athena_available = TRUE
  /\ cache_maxsize = [fn \in CacheNames |-> MaxCacheSize]
  /\ cache = [fn \in CacheNames |-> <<>>]
  /\ in_flight = [w \in 1..NumWorkers |-> <<>>]
  /\ calls_made = 0 /\ gateway_calls = 0 /\ returned = <<>>
  /\ failures_returned = {}

Init == InitWorker /\ OrchIdle /\ QueryIdle /\ CacheIdle

\* lines 747-781: no query returned a candidate (failed, empty or raised)
SearchNoResults ==
  /\ pc = "search"
  /\ result' = <<EmptyConceptSet(SetName)>>
  /\ pc' = "returned"
  /\ UNCHANGED <<cfgVars, queueVars, loopVars, outcome, orchVars, queryVars, cacheVars>>

\* lines 747-771: some query returned candidates.  all_search_results is read
\* again only by the fallback selection (line 795), where its content is drawn.
SearchFound ==
  /\ pc = "search"
  /\ ~gateway_down
  /\ pc' = "select"
  /\ UNCHANGED <<cfgVars, queueVars, loopVars, outcome, result, orchVars, queryVars, cacheVars>>

\* lines 802-817: the queue built from the selected candidate IDs
InitQueue(candidate_ids) ==
  /\ pending' = [i \in DOMAIN candidate_ids |-> QueueItem(candidate_ids[i], 0)]
  /\ visited' = <<>>
  /\ depth_map' = [k \in Elems(candidate_ids) |-> 0]
  /\ iteration' = 0
  /\ pc' = "loop"
  /\ UNCHANGED <<cfgVars, history, qs_iteration, visit_count,
                 resolved, best_fallback, stop_reason, evidence, last_head_id,
                 stagnation_count, accepted_concepts, ids, depths, concepts,
                 short_circuit, outcome, result, orchVars, queryVars, cacheVars>>

\* lines 785-789: the selector answers with any list of IDs
SelectCandidates ==
  /\ pc = "select"
  /\ \E sel \in SeqsUpTo(Ids, MaxSeeds) : InitQueue(sel)

\* lines 790-797: the selector failed, the first five search hits are the seeds
SelectFallback ==
  /\ pc = "select"
  /\ \E all_search_results \in SeqsUpTo(Ids, MaxSeeds) \ {<<>>} :
       InitQueue(SubSeq(all_search_results, 1, Min(5, Len(all_search_results))))

\* line 820
LoopCond == ~resolved /\ visit_count < max_visits /\ pending # <<>>

LoopExit ==
  /\ pc = "loop"
  /\ ~LoopCond
  /\ pc' = "finalize"
  /\ UNCHANGED <<cfgVars, queueVars, loopVars, outcome, result, orchVars, queryVars, cacheVars>>

\* A variant that tests the elapsed time before every external call as well.
TimeCheckPoints_every_call == {"loop", "fetch", "analyze"}

\* the positions of the worker at which the elapsed time is tested (line 823)
TimeCheckPoints == {"loop"}

\* lines 817-823: the clock passes start_time + PER_SET_TIME_LIMIT_SEC at any
\* moment of the exploration, also during a gateway or analyzer call
BudgetExpires ==
  /\ pc \in {"loop", "fetch", "analyze"}
  /\ ~budget_exceeded
  /\ budget_exceeded' = TRUE
  /\ UNCHANGED <<pc, max_depth, max_visits, batch_size, gateway_down, oracle,
                 queueVars, loopVars, outcome, result, orchVars, queryVars, cacheVars>>

\* lines 821-826: the wall-clock budget is spent when the iteration starts
Timeout ==
  /\ pc \in TimeCheckPoints
  /\ LoopCond
  /\ budget_exceeded
  /\ iteration' = iteration + 1
  /\ stop_reason' = "timeout"
  /\ pc' = "finalize"
  /\ UNCHANGED <<cfgVars, pending, visited, depth_map, history,
                 qs_iteration, visit_count, resolved, best_fallback, evidence,
                 last_head_id, stagnation_count, accepted_concepts, ids, depths,
                 concepts, short_circuit, outcome, result, orchVars, queryVars, cacheVars>>

\* lines 821-833: the budget is not spent, the next batch is taken
NextBatch ==
  /\ pc = "loop"
  /\ LoopCond
  /\ ~budget_exceeded
  /\ iteration' = iteration + 1
  /\ \E batch_info \in {queue_next_batch(pending, visit_count, max_visits, max_depth,
                                           batch_size, resolved)} :
        /\ pending' = batch_info.pending
        /\ qs_iteration' = IF batch_info.advanced THEN qs_iteration + 1 ELSE qs_iteration
        /\ IF batch_info.has_batch
           THEN /\ ids' = batch_info.ids
                /\ depths' = batch_info.depths
                /\ pc' = "fetch"
           ELSE /\ UNCHANGED <<ids, depths>>
                /\ pc' = "finalize"
  /\ UNCHANGED <<cfgVars, visited, depth_map, history, visit_count,
                 resolved, best_fallback, stop_reason, evidence, last_head_id,
                 stagnation_count, accepted_concepts, concepts, short_circuit,
                 outcome, result, orchVars, queryVars, cacheVars>>

\* lines 837-897: the details of every batch concept are fetched (a failed lookup
\* gives the empty dict), then the short-circuit rule runs
Fetch ==
  /\ pc = "fetch"
  /\ \E kinds \in [DOMAIN ids -> IF gateway_down THEN {"missing"} ELSE DetailKinds] :
       concepts' = [i \in DOMAIN ids |-> ConceptData(ids[i], Details(ids[i], kinds[i]))]
  /\ short_circuit' = try_short_circuit_resolution(concepts')
  /\    IF short_circuit' # <<>>
        THEN /\ accepted_concepts' =
                  AcceptShortCircuit(accepted_concepts, concepts', short_circuit'[1])
             /\ IF Len(accepted_concepts') >= MAX_ACCEPTED_PER_SET
                THEN stop_reason' = "enough_matches" /\ pc' = "finalize"
                ELSE UNCHANGED stop_reason /\ pc' = "analyze"
        ELSE /\ UNCHANGED <<accepted_concepts, stop_reason>>
             /\ pc' = "analyze"
  /\ UNCHANGED <<cfgVars, pending, visited, depth_map, history,
                 qs_iteration, visit_count, resolved, best_fallback, evidence,
                 last_head_id, stagnation_count, iteration, ids, depths, outcome,
                 result, orchVars, queryVars, cacheVars>>

\* lines 932-951: the state update and the halting checks after it
ApplyDecisions(decisions) ==
  \E upd \in {update_queue_from_batch(
                 [visited |-> visited, visit_count |-> visit_count,
                  pending |-> pending, depth_map |-> depth_map,
                  accepted_concepts |-> accepted_concepts, max_depth |-> max_depth],
                 ids, depths, concepts, decisions)} :
     /\ visited' = upd.visited
     /\ visit_count' = upd.visit_count
     /\ pending' = upd.pending
     /\ depth_map' = upd.depth_map
     /\ accepted_concepts' = upd.accepted_concepts
     /\ best_fallback' = BestFallbackAfterUpdate(best_fallback, decisions)
     /\ IF Len(upd.accepted_concepts) >= MAX_ACCEPTED_PER_SET
        THEN /\ stop_reason' = "enough_matches"
             /\ pc' = "finalize"
             /\ UNCHANGED <<last_head_id, stagnation_count>>
        ELSE IF upd.pending # <<>>
        THEN LET head_id == upd.pending[1].concept_id
             IN IF last_head_id = <<head_id>>
                THEN /\ stagnation_count' = stagnation_count + 1
                     /\ UNCHANGED last_head_id
                     /\ IF stagnation_count + 1 >= 3
                        THEN stop_reason' = "stagnation" /\ pc' = "finalize"
                        ELSE UNCHANGED stop_reason /\ pc' = "loop"
                ELSE /\ stagnation_count' = 0
                     /\ last_head_id' = <<head_id>>
                     /\ UNCHANGED stop_reason
                     /\ pc' = "loop"
        ELSE /\ UNCHANGED <<last_head_id, stagnation_count, stop_reason>>
             /\ pc' = "loop"
     /\ UNCHANGED <<cfgVars, history, qs_iteration, resolved,
                    evidence, iteration, short_circuit, outcome, result, orchVars, queryVars, cacheVars>>
     \* ids, depths and concepts are not read again before they are reassigned
     /\ ids' = <<>> /\ depths' = <<>> /\ concepts' = <<>>

\* lines 899-912, 926-951: the analyzer answers with any list of decisions
Analyze ==
  /\ pc = "analyze"
  /\ IF oracle = <<>>
     THEN \E n \in 0..MaxDecisions : \E decisions \in [1..n -> Decisions] :
            ApplyDecisions(decisions)
     ELSE ~oracle[1].raised /\ ApplyDecisions(oracle[1].decisions)

\* lines 913-924, 926-951: the analyzer call raised
AnalyzeFails ==
  /\ pc = "analyze"
  /\ IF oracle = <<>> THEN TRUE ELSE oracle[1].raised
  /\ ApplyDecisions([i \in DOMAIN ids |-> FallbackDecision(ids[i])])

\* lines 953-971
Finalize ==
  /\ pc = "finalize"
  /\ outcome' = <<finalize_resolution(accepted_concepts, best_fallback, visit_count,
                                      stop_reason, pending, history, evidence)>>
  /\ result' = <<ConceptSetResult(SetName, outcome'[1])>>
  /\ pc' = "returned"
  /\ UNCHANGED <<cfgVars, queueVars, loopVars, orchVars, queryVars, cacheVars>>

Next ==
  \/ SearchNoResults
  \/ SearchFound
  \/ SelectCandidates
  \/ SelectFallback
  \/ LoopExit
  \/ BudgetExpires
  \/ Timeout
  \/ NextBatch
  \/ Fetch
  \/ Analyze
  \/ AnalyzeFails
  \/ Finalize

Spec == Init /\ [][Next]_vars

\* the worker is scheduled until it returns
FairSpec == Spec /\ WF_vars(Next)

\* ============================================================================
\* One iteration of the main loop against a scripted analyzer
\* ============================================================================
\* the answers the analyzer is scripted with: only the conjunction of the two
\* flags is read, so they are equal here; the concept_id is any ID
IterationDecisions ==
  {[concept_id |-> c, is_standard |-> b, is_correct_for_term |-> b,
    suggested_new_candidates |-> s] :
     c \in Ids, b \in BOOLEAN, s \in SeqsUpTo(Ids, MaxSuggest)}

OracleRaises == [raised |-> TRUE, decisions |-> <<>>]
OracleAnswers(decisions) == [raised |-> FALSE, decisions |-> decisions]

\* the decisions the update of line 932 receives
DecisionsUsed ==
  IF oracle[1].raised THEN [i \in DOMAIN ids |-> FallbackDecision(ids[i])]
  ELSE oracle[1].decisions

\* The worker right after _queue_next_batch returned a batch (line 833), in the
\* first iteration (nothing visited, the batch is the first seeds) or in the
\* second iteration of a run with batch_size 1 that visited concept NumIds first
\* (the batch is the next seed or a child, one more item may be queued).
InitIteration ==
  /\ pc = "fetch"
  /\ max_depth \in 0..MaxDepthCfg
  /\ max_visits = MaxBatchCfg + 1
  /\ gateway_down = FALSE /\ budget_exceeded = FALSE
  /\ \/ oracle = <<OracleRaises>>
     \/ \E n \in 0..MaxDecisions : \E decisions \in [1..n -> IterationDecisions] :
          oracle = <<OracleAnswers(decisions)>>
  /\ \/ /\ visited = <<>> /\ accepted_concepts = <<>>
        /\ batch_size \in 1..MaxBatchCfg
        /\ \E n \in 1..batch_size :
             /\ ids = [i \in 1..n |-> i]
             /\ depths = [i \in 1..n |-> 0]
             /\ pending \in {<<>>} \cup
                   {<<QueueItem(c, 0)>> : c \in IF n = batch_size THEN Ids \ (1..n) ELSE {}}
        /\ last_head_id = <<>>
     \/ /\ visited = <<NumIds>>
        /\ accepted_concepts \in {<<>>, <<[concept_id |-> NumIds]>>}
        /\ batch_size = 1
        /\ \E d \in 0..max_depth :
             /\ ids = <<1>>
             /\ depths = <<d>>
             /\ pending \in {<<>>} \cup
                   {<<QueueItem(c, d2)>> : c \in Ids \ {1, NumIds}, d2 \in d..max_depth}
        /\ last_head_id = <<1>>
  /\ depth_map = [k \in Elems(ids) \cup Elems(PendingIds(pending)) \cup Elems(visited) |->
                    IF k \in Elems(ids) THEN depths[1]
                    ELSE IF k \in Elems(visited) THEN 0 ELSE pending[1].depth]
  /\ visit_count = Len(visited)
  /\ iteration = Len(visited) + 1 /\ qs_iteration = Len(visited) + 1
  /\ history = <<>> /\ resolved = FALSE /\ best_fallback = <<>>
  /\ stop_reason = NoReason /\ evidence = <<>> /\ stagnation_count = 0
  /\ concepts = <<>> /\ short_circuit = <<>>
  /\ outcome = <<>> /\ result = <<>>
  /\ OrchIdle /\ QueryIdle /\ CacheIdle

NextIteration ==
  \/ Fetch
  \/ Analyze
  \/ AnalyzeFails

SpecIteration == InitIteration /\ [][NextIteration]_vars

\* ============================================================================
\* One iteration at depth 1 of an exploration with room for one more level
\* ============================================================================
\* one concept ID more than Ids: a root, its children and a grandchild
LevelIds == 1..(NumIds + 1)
LevelRoot == NumIds + 1

\* the answers the analyzer is scripted with, over LevelIds
LevelDecisions ==
  {[concept_id |-> c, is_standard |-> b, is_correct_for_term |-> b,
    suggested_new_candidates |-> s] :
     c \in LevelIds, b \in BOOLEAN, s \in SeqsUpTo(LevelIds, MaxSuggest)}

\* The worker right after _queue_next_batch returned the batch of the second
\* iteration (line 833) of a run with batch_size 1 and max_depth one above
\* MaxDepthCfg: the seed LevelRoot was visited first and rejected, the analyzer
\* suggested concept 1 (the batch, depth 1) and possibly concept 2 (still queued
\* at depth 1).
InitLevels ==
  /\ pc = "fetch"
  /\ max_depth = MaxDepthCfg + 1
  /\ max_visits = MaxBatchCfg + 1
  /\ batch_size = 1
  /\ gateway_down = FALSE /\ budget_exceeded = FALSE
  /\ \/ oracle = <<OracleRaises>>
     \/ \E n \in 0..MaxDecisions : \E decisions \in [1..n -> LevelDecisions] :
          oracle = <<OracleAnswers(decisions)>>
  /\ visited = <<LevelRoot>> /\ accepted_concepts = <<>>
  /\ ids = <<1>> /\ depths = <<1>>
  /\ pending \in {<<>>, <<QueueItem(2, 1)>>}
  /\ last_head_id = <<1>>
  /\ depth_map = [k \in {LevelRoot, 1} \cup Elems(PendingIds(pending)) |->
                    IF k = LevelRoot THEN 0 ELSE 1]
  /\ visit_count = 1 /\ iteration = 2 /\ qs_iteration = 2
  /\ history = <<>> /\ resolved = FALSE /\ best_fallback = <<>>
  /\ stop_reason = NoReason /\ evidence = <<>> /\ stagnation_count = 0
  /\ concepts = <<>> /\ short_circuit = <<>>
  /\ outcome = <<>> /\ result = <<>>
  /\ OrchIdle /\ QueryIdle /\ CacheIdle

SpecLevels == InitLevels /\ [][NextIteration]_vars

\* ============================================================================
\* _finalize_resolution on any queue state
\* ============================================================================
StopReasons == {"timeout", "enough_matches", "stagnation"}
AcceptedEntries == {[concept_id |-> c] : c \in Ids}

InitFinalize ==
  /\ pc = "finalize"
  /\ max_depth = MaxDepthCfg /\ max_visits = MaxVisitsCfg /\ batch_size = MaxBatchCfg
  /\ gateway_down = FALSE /\ oracle = <<>> /\ budget_exceeded = FALSE
  /\ pending \in SeqsUpTo({QueueItem(c, 0) : c \in Ids}, MaxSeeds)
  /\ visited = <<>> /\ depth_map = <<>> /\ history = <<>>
  /\ qs_iteration = 0 /\ visit_count \in 0..MaxVisitsCfg /\ resolved = FALSE
  /\ best_fallback \in {<<>>} \cup {<<e>> : e \in AcceptedEntries}
  /\ stop_reason \in StopReasons \cup {NoReason}
  /\ evidence = <<>>
  /\ last_head_id = <<>> /\ stagnation_count = 0
  /\ accepted_concepts \in SeqsUpTo(AcceptedEntries, 1)
  /\ iteration = 0 /\ ids = <<>> /\ depths = <<>> /\ concepts = <<>>
  /\ short_circuit = <<>>
  /\ outcome = <<>> /\ result = <<>>
  /\ OrchIdle /\ QueryIdle /\ CacheIdle

SpecFinalize == InitFinalize /\ [][Finalize]_vars

\* ============================================================================
\* run_intelligent_concept_discovery: the parallel orchestrator
\* ============================================================================
\* what a call of _process_single_concept_set can return for set cs: the entry
\* of lines 775-781, or the entry of lines 964-971 around an outcome
WorkerResults(cs) ==
  {EmptyConceptSet(cs)}
  \cup {ConceptSetResult(cs, finalize_resolution(acc, <<>>, 1, NoReason, <<>>, <<>>, <<>>)) :
          acc \in {<<>>, <<[concept_id |-> 1]>>}}

\* A variant that adds no entry for a failed set.
collect_failure_dropped(final, cs) == final

\* lines 1055-1066: the entry appended for a set whose worker raised
collect_failure(final, cs) == Append(final, EmptyConceptSet(cs))

\* lines 1052-1053: the entry appended for a set whose worker returned
collect_result(final, r) == Append(final, r)

\* lines 1036-1047: every concept set is submitted; the worker variables are not
\* used by this specification
InitOrch ==
  /\ orch_pc = "collecting"
  /\ futures = [cs \in ConceptSets |-> [state |-> "running", result |-> <<>>,
                                        collected |-> FALSE]]
  /\ final_concept_sets = <<>>
  /\ pc = "idle"
  /\ max_depth = MaxDepthCfg /\ max_visits = MaxVisitsCfg /\ batch_size = MaxBatchCfg
  /\ gateway_down = FALSE /\ oracle = <<>> /\ budget_exceeded = FALSE
  /\ pending = <<>> /\ visited = <<>> /\ depth_map = <<>> /\ history = <<>>
  /\ qs_iteration = 0 /\ visit_count = 0 /\ resolved = FALSE
  /\ best_fallback = <<>> /\ stop_reason = NoReason /\ evidence = <<>>
  /\ last_head_id = <<>> /\ stagnation_count = 0 /\ accepted_concepts = <<>>
  /\ iteration = 0 /\ ids = <<>> /\ depths = <<>> /\ concepts = <<>>
  /\ short_circuit = <<>>
  /\ outcome = <<>> /\ result = <<>>
  /\ QueryIdle /\ CacheIdle

\* the worker of set cs returns
WorkerReturns ==
  /\ orch_pc = "collecting"
  /\ \E cs \in ConceptSets : \E r \in WorkerResults(cs) :
       /\ futures[cs].state = "running"
       /\ futures' = [futures EXCEPT ![cs].state = "done", ![cs].result = <<r>>]
  /\ UNCHANGED <<workerVars, queryVars, cacheVars, final_concept_sets, orch_pc>>

\* the worker of set cs raises
WorkerRaises ==
  /\ orch_pc = "collecting"
  /\ \E cs \in ConceptSets :
       /\ futures[cs].state = "running"
       /\ futures' = [futures EXCEPT ![cs].state = "failed"]
  /\ UNCHANGED <<workerVars, queryVars, cacheVars, final_concept_sets, orch_pc>>

\* lines 1049-1054: as_completed yields a future that returned
CollectResult ==
  /\ orch_pc = "collecting"
  /\ \E cs \in ConceptSets :
       /\ futures[cs].state = "done" /\ ~futures[cs].collected
       /\ final_concept_sets' = collect_result(final_concept_sets, futures[cs].result[1])
       /\ futures' = [futures EXCEPT ![cs].collected = TRUE]
  /\ UNCHANGED <<workerVars, queryVars, cacheVars, orch_pc>>

\* lines 1049-1051, 1055-1066: as_completed yields a future that raised
CollectFailure ==
  /\ orch_pc = "collecting"
  /\ \E cs \in ConceptSets :
       /\ futures[cs].state = "failed" /\ ~futures[cs].collected
       /\ final_concept_sets' = collect_failure(final_concept_sets, cs)
       /\ futures' = [futures EXCEPT ![cs].collected = TRUE]
  /\ UNCHANGED <<workerVars, queryVars, cacheVars, orch_pc>>

\* lines 1068-1081: every future was collected, the list is returned
OrchReturn ==
  /\ orch_pc = "collecting"
  /\ \A cs \in ConceptSets : futures[cs].collected
  /\ orch_pc' = "returned"
  /\ UNCHANGED <<workerVars, queryVars, cacheVars, futures, final_concept_sets>>

NextOrch ==
  \/ WorkerReturns
  \/ WorkerRaises
  \/ CollectResult
  \/ CollectFailure
  \/ OrchReturn

SpecOrch == InitOrch /\ [][NextOrch]_vars

\* ============================================================================
\* tools/query.py: query_by_concepts
\* ============================================================================
QueryTypes == {"count", "breakdown", "list_patients"}
RequestedTypes == QueryTypes \cup {"invalid_type"}
RequestedLimits ==
  {0, 1, MAX_ROW_LIMIT - 1, MAX_ROW_LIMIT, MAX_ROW_LIMIT + 1, 5 * MAX_ROW_LIMIT}
Costs == 0..MaxCost

\* SQLValidationResult: valid, estimated_cost_usd (<<>> for None)
Validations ==
  [valid : BOOLEAN, estimated_cost_usd : {<<>>} \cup {<<c>> : c \in Costs}]

\* A variant that passes the requested limit on unchanged.
cap_limit_uncapped(l) == l

\* lines 80-83
cap_limit(l) == IF l > MAX_ROW_LIMIT THEN MAX_ROW_LIMIT ELSE l

\* lines 105-145: the statement for the query type, with the concept list of its
\* IN clause and its LIMIT clause (the count statement has none)
generate_sql(query_type, concept_ids, l) ==
  [select |-> query_type, concept_list |-> concept_ids,
   limit_clause |-> IF query_type = "count" THEN <<>> ELSE <<l>>]

\* A variant that never rejects a query for its cost.
cost_exceeded_never(v, cfg) == FALSE

\* lines 175-176: estimated_cost = validation.estimated_cost_usd or 0.0
cost_exceeded(v, cfg) ==
  LET estimated_cost == IF v.estimated_cost_usd = <<>> THEN 0
                        ELSE v.estimated_cost_usd[1]
  IN estimated_cost > cfg.max_query_cost_usd

\* one call on the backend
ValidateCall(text) == [op |-> "validate_sql", sql |-> text, limit |-> <<>>]
ExecuteCall(text, l) == [op |-> "execute_query", sql |-> text, limit |-> <<l>>]

\* QueryOMOPResult: sql, results and row_count (<<>> for None), estimated cost
QueryOMOPResult(text, results, cost) ==
  [sql |-> text, results |-> results,
   row_count |-> IF results = <<>> THEN <<>> ELSE <<Len(results[1])>>,
   estimated_cost_usd |-> cost]

\* the worker of the concept discovery is not running
WorkerIdle ==
  /\ pc = "idle"
  /\ max_depth = MaxDepthCfg /\ max_visits = MaxVisitsCfg /\ batch_size = MaxBatchCfg
  /\ gateway_down = FALSE /\ oracle = <<>> /\ budget_exceeded = FALSE
  /\ pending = <<>> /\ visited = <<>> /\ depth_map = <<>> /\ history = <<>>
  /\ qs_iteration = 0 /\ visit_count = 0 /\ resolved = FALSE
  /\ best_fallback = <<>> /\ stop_reason = NoReason /\ evidence = <<>>
  /\ last_head_id = <<>> /\ stagnation_count = 0 /\ accepted_concepts = <<>>
  /\ iteration = 0 /\ ids = <<>> /\ depths = <<>> /\ concepts = <<>>
  /\ short_circuit = <<>>
  /\ outcome = <<>> /\ result = <<>>

\* a call of query_by_concepts with any arguments under any configuration
InitQuery ==
  /\ q_pc = "start"
  /\ request \in [query_type : RequestedTypes, concept_ids : {<<>>, <<1>>},
                  execute : BOOLEAN, limit : RequestedLimits]
  /\ config \in [allow_patient_list : BOOLEAN, max_query_cost_usd : Costs]
  /\ q_limit = request.limit
  /\ sql = <<>> /\ validation = <<>> /\ backend_calls = <<>>
  /\ query_result = <<>> /\ q_error = <<>>
  /\ WorkerIdle /\ OrchIdle /\ CacheIdle

\* lines 73-78, 129-135: the arguments are rejected with a ValueError
RejectRequest ==
  /\ q_pc = "start"
  /\ \/ /\ request.concept_ids = <<>>
        /\ q_error' = <<"concept_ids cannot be empty">>
        /\ UNCHANGED q_limit
     \/ /\ request.concept_ids # <<>>
        /\ request.query_type \notin QueryTypes
        /\ q_error' = <<"query_type must be one of">>
        /\ UNCHANGED q_limit
     \/ /\ request.concept_ids # <<>>
        /\ request.query_type = "list_patients"
        /\ ~config.allow_patient_list
        /\ q_error' = <<"list_patients query type not allowed">>
        /\ q_limit' = cap_limit(q_limit)
  /\ q_pc' = "raised"
  /\ UNCHANGED <<request, config, sql, validation, backend_calls, query_result,
                 workerVars, orchVars, cacheVars>>

\* lines 73-150: the limit is capped, the SQL generated and validate_sql called
GenerateSql ==
  /\ q_pc = "start"
  /\ request.concept_ids # <<>>
  /\ request.query_type \in QueryTypes
  /\ request.query_type = "list_patients" => config.allow_patient_list
  /\ q_limit' = cap_limit(q_limit)
  /\ sql' = <<generate_sql(request.query_type, request.concept_ids, q_limit')>>
  /\ backend_calls' = Append(backend_calls, ValidateCall(sql'[1]))
  /\ q_pc' = "validating"
  /\ UNCHANGED <<request, config, validation, query_result, q_error,
                 workerVars, orchVars, cacheVars>>

\* lines 150-167: the validation says invalid, the SQL is returned without rows
ReturnInvalid ==
  /\ q_pc = "validating"
  /\ \E v \in Validations :
       /\ ~v.valid
       /\ validation' = <<v>>
  /\ query_result' = <<QueryOMOPResult(sql[1], <<>>, <<>>)>>
  /\ q_pc' = "returned"
  /\ UNCHANGED <<request, config, q_limit, sql, backend_calls, q_error,
                 workerVars, orchVars, cacheVars>>

\* lines 150, 170-173, 202-211: valid and execute is false, the SQL is returned
ReturnSqlOnly ==
  /\ q_pc = "validating"
  /\ ~request.execute
  /\ \E v \in Validations :
       /\ v.valid
       /\ validation' = <<v>>
       /\ query_result' = <<QueryOMOPResult(sql[1], <<>>, v.estimated_cost_usd)>>
  /\ q_pc' = "returned"
  /\ UNCHANGED <<request, config, q_limit, sql, backend_calls, q_error,
                 workerVars, orchVars, cacheVars>>

\* lines 150, 173-182: the estimated cost is above the limit, ValueError
RejectCost ==
  /\ q_pc = "validating"
  /\ request.execute
  /\ \E v \in Validations :
       /\ v.valid
       /\ cost_exceeded(v, config)
       /\ validation' = <<v>>
  /\ q_error' = <<"Query exceeds cost limit">>
  /\ q_pc' = "raised"
  /\ UNCHANGED <<request, config, q_limit, sql, backend_calls, query_result,
                 workerVars, orchVars, cacheVars>>

\* lines 150, 173-192: the cost is within the limit, execute_query is called
CallExecute ==
  /\ q_pc = "validating"
  /\ request.execute
  /\ \E v \in Validations :
       /\ v.valid
       /\ ~cost_exceeded(v, config)
       /\ validation' = <<v>>
  /\ backend_calls' = Append(backend_calls, ExecuteCall(sql[1], q_limit))
  /\ q_pc' = "executing"
  /\ UNCHANGED <<request, config, q_limit, sql, query_result, q_error,
                 workerVars, orchVars, cacheVars>>

\* lines 192-211: execute_query returned its rows
ReturnResults ==
  /\ q_pc = "executing"
  /\ \E rows \in {<<>>, <<1>>} :
       query_result' = <<QueryOMOPResult(sql[1], <<rows>>,
                                         validation[1].estimated_cost_usd)>>
  /\ q_pc' = "returned"
  /\ UNCHANGED <<request, config, q_limit, sql, validation, backend_calls, q_error,
                 workerVars, orchVars, cacheVars>>

\* lines 150, 192: the awaited backend call raised, the exception propagates
BackendRaises ==
  /\ q_pc \in {"validating", "executing"}
  /\ q_error' = <<"backend error">>
  /\ q_pc' = "raised"
  /\ UNCHANGED <<request, config, q_limit, sql, validation, backend_calls,
                 query_result, workerVars, orchVars, cacheVars>>

NextQuery ==
  \/ RejectRequest
  \/ GenerateSql
  \/ ReturnInvalid
  \/ ReturnSqlOnly
  \/ RejectCost
  \/ CallExecute
  \/ ReturnResults
  \/ BackendRaises

SpecQuery == InitQuery /\ [][NextQuery]_vars

\* ============================================================================
\* agents/cd/tools.py: the LRU caches in front of the Vocabulary Gateway
\* ============================================================================
Workers == 1..NumWorkers

\* the characters of a query: a lower-case letter, its upper case, whitespace
Chars == {"a", "A", " "}
RawQueries == SeqsUpTo(Chars, MaxQueryLen)

\* vocabulary names with their rank in alphabetical order
Vocabularies == {"RxNorm", "SNOMED"}
VocabRank == ("RxNorm" :> 1) @@ ("SNOMED" :> 2)
\* the vocabulary argument: None or an empty list (<<>>), or the names in
\* some order
RawVocabularies ==
  {<<>>} \cup {v \in [1..2 -> Vocabularies] : v[1] # v[2]}

\* the concept_ids argument of get_concept_details
RawConceptIds ==
  {c \in SeqsUpTo(1..2, 2) : c # <<>> /\ \A i, j \in DOMAIN c : i # j => c[i] # c[j]}

\* str.lower()
lower(query) == [i \in DOMAIN query |-> IF query[i] = "A" THEN "a" ELSE query[i]]

RECURSIVE lstrip(_)
lstrip(query) ==
  IF query # <<>> /\ Head(query) = " " THEN lstrip(Tail(query)) ELSE query

RECURSIVE rstrip(_)
rstrip(query) ==
  IF query # <<>> /\ query[Len(query)] = " "
  THEN rstrip(SubSeq(query, 1, Len(query) - 1)) ELSE query

\* str.strip()
strip(query) == rstrip(lstrip(query))

\* line 314: query.lower().strip()
normalized_query(query) == strip(lower(query))

\* lines 317-319: None for no vocabulary, else tuple(sorted(vocabulary))
vocab_tuple(vocabulary) ==
  IF vocabulary = <<>> THEN <<>>
  ELSE SortSeq(vocabulary, LAMBDA x, y : VocabRank[x] < VocabRank[y])

\* lines 322-328: the arguments of _search_athena_cached, the key of its cache
\* (domain, standard_only and top_k are part of the key and keep their defaults)
SearchKey(query, vocabulary) ==
  [query |-> normalized_query(query), vocab_tuple |-> vocab_tuple(vocabulary)]

\* line 412: tuple(sorted(concept_ids))
DetailsKey(concept_ids) ==
  [concept_ids_tuple |-> SortSeq(concept_ids, LAMBDA x, y : x < y)]

\* what a cached function returns (the JSON text): success true with the
\* payload, or success false with the error text
Answers ==
  {[success |-> TRUE, error |-> "none"],
   [success |-> FALSE, error |-> "gateway error"]}
NotInstalled == [success |-> FALSE, error |-> "athena-client not installed"]

\* functools.lru_cache: c is the list of entries, least recently used first
CacheHas(c, key) == \E i \in DOMAIN c : c[i].key = key
CacheValue(c, key) == c[CHOOSE i \in DOMAIN c : c[i].key = key].value
CacheKeys(c) == {c[i].key : i \in DOMAIN c}

\* a hit makes the entry the most recently used
Touch(c, key) ==
  Append(SelectSeq(c, LAMBDA e : e.key # key),
         [key |-> key, value |-> CacheValue(c, key)])

\* A variant that keeps successful results only.
Store_successes_only(c, key, value, maxsize) ==
  IF ~value.success \/ CacheHas(c, key) THEN c
  ELSE IF Len(c) >= maxsize THEN Append(Tail(c), [key |-> key, value |-> value])
  ELSE Append(c, [key |-> key, value |-> value])

\* the wrapped function returned value for a key that missed: the result is
\* stored whatever it says, unless another thread stored the key meanwhile; a
\* full cache drops its least recently used entry
Store(c, key, value, maxsize) ==
  IF CacheHas(c, key) THEN c
  ELSE IF Len(c) >= maxsize THEN Append(Tail(c), [key |-> key, value |-> value])
  ELSE Append(c, [key |-> key, value |-> value])

\* a failure returned for a key is remembered while the key's entry is cached
Remember(failures, c, fn, key, value) ==
  {f \in failures : f.fn # fn \/ (f.key # key /\ CacheHas(c, f.key))}
  \cup (IF value.success THEN {} ELSE {[fn |-> fn, key |-> key, value |-> value]})

\* a run of up to MaxCalls calls from the worker threads, the caches empty
InitCache ==
  /\ athena_available \in BOOLEAN
  /\ cache_maxsize \in [CacheNames -> 1..MaxCacheSize]
  /\ cache = [fn \in CacheNames |-> <<>>]
  /\ in_flight = [w \in Workers |-> <<>>]
  /\ calls_made = 0 /\ gateway_calls = 0 /\ returned = <<>>
  /\ failures_returned = {}
  /\ WorkerIdle /\ OrchIdle /\ QueryIdle

\* a thread that is not inside a call calls cached function fn with the
\* arguments that make the key
CachedCall(w, fn, key) ==
  /\ calls_made < MaxCalls
  /\ calls_made' = calls_made + 1
  /\ IF CacheHas(cache[fn], key)
     THEN \* hit: the stored text is returned, the function body does not run
          /\ returned' = <<[fn |-> fn, key |-> key, hit |-> TRUE,
                            value |-> CacheValue(cache[fn], key)]>>
          /\ cache' = [cache EXCEPT ![fn] = Touch(@, key)]
          /\ failures_returned' =
               Remember(failures_returned, cache'[fn], fn, key, returned'[1].value)
          /\ UNCHANGED <<in_flight, gateway_calls>>
     ELSE IF ~athena_available
     THEN \* lines 60-63, 129-132: the body returns a failure at once
          /\ returned' = <<[fn |-> fn, key |-> key, hit |-> FALSE,
                            value |-> NotInstalled]>>
          /\ cache' = [cache EXCEPT ![fn] = Store(@, key, NotInstalled, cache_maxsize[fn])]
          /\ failures_returned' =
               Remember(failures_returned, cache'[fn], fn, key, NotInstalled)
          /\ UNCHANGED <<in_flight, gateway_calls>>
     ELSE \* miss: the body runs and contacts the gateway, outside any lock
          /\ in_flight' = [in_flight EXCEPT ![w] = <<[fn |-> fn, key |-> key]>>]
          /\ gateway_calls' = gateway_calls + 1
          /\ UNCHANGED <<cache, returned, failures_returned>>
  /\ UNCHANGED <<athena_available, cache_maxsize, workerVars, orchVars, queryVars>>

\* lines 312-335: search_athena called by a worker thread
search_athena ==
  \E w \in Workers : \E query \in RawQueries : \E vocabulary \in RawVocabularies :
    /\ in_flight[w] = <<>>
    /\ CachedCall(w, "search", SearchKey(query, vocabulary))

\* lines 410-418: get_concept_details called by a worker thread
get_concept_details ==
  \E w \in Workers : \E concept_ids \in RawConceptIds :
    /\ in_flight[w] = <<>>
    /\ CachedCall(w, "details", DetailsKey(concept_ids))

\* lines 65-120, 134-160: the body of a cached function ends with the gateway's
\* answer or with the failure made from an exception; lru_cache stores it
GatewayAnswers ==
  /\ \E w \in Workers : \E a \in Answers :
       /\ in_flight[w] # <<>>
       /\ LET call == in_flight[w][1]
          IN /\ cache' = [cache EXCEPT ![call.fn] =
                            Store(@, call.key, a, cache_maxsize[call.fn])]
             /\ returned' = <<[fn |-> call.fn, key |-> call.key, hit |-> FALSE,
                               value |-> a]>>
             /\ failures_returned' =
                  Remember(failures_returned, cache'[call.fn], call.fn, call.key, a)
       /\ in_flight' = [in_flight EXCEPT ![w] = <<>>]
  /\ UNCHANGED <<athena_available, cache_maxsize, calls_made, gateway_calls,
                 workerVars, orchVars, queryVars>>

\* lines 194-198
clear_cache ==
  /\ \E fn \in CacheNames : cache[fn] # <<>>
  /\ cache' = [fn \in CacheNames |-> <<>>]
  /\ failures_returned' = {}
  /\ UNCHANGED <<athena_available, cache_maxsize, in_flight, calls_made,
                 gateway_calls, returned, workerVars, orchVars, queryVars>>

NextCache ==
  \/ search_athena
  \/ get_concept_details
  \/ GatewayAnswers
  \/ clear_cache

SpecCache == InitCache /\ [][NextCache]_vars

\* ============================================================================
\* Properties
\* ============================================================================

\* C1: with max_depth >= 0 and batch_size >= 1 the main loop starts at most
\* max(max_visits, 1) iterations, whatever the seeds, the gateway and the
\* analyzer answer, and a worker that entered the loop always reaches
\* _finalize_resolution.
C1_MainLoopTerminates ==
  /\ []((max_depth >= 0 /\ batch_size >= 1) => iteration <= Max(max_visits, 1))
  /\ ((pc = "loop") ~> (pc = "finalize"))

\* C1 witness: a run that used every iteration the bound allows and then left
\* the loop by its own condition
C1_Witness ==
  /\ pc = "finalize" /\ max_depth >= 0 /\ max_visits >= 2
  /\ iteration = max_visits /\ stop_reason = NoReason

\* C2: visit_count never exceeds max_visits.
C2_VisitCountBounded == visit_count <= max_visits

\* C2 witness: the visit limit stopped the loop while concepts were still queued
C2_Witness ==
  pc = "finalize" /\ visit_count = max_visits /\ max_visits >= 2 /\ pending # <<>>

\* C3: every concept of a batch returned by _queue_next_batch has
\* depth <= max_depth.
C3_BatchDepthBounded == \A i \in DOMAIN depths : depths[i] <= max_depth

\* C3 witness: a suggested concept is dispatched at the depth limit
C3_Witness ==
  pc = "fetch" /\ max_depth >= 1 /\ \E i \in DOMAIN depths : depths[i] = max_depth

\* C4: accepted_concepts never holds two entries with the same concept_id.
C4_NoDuplicateAccepted ==
  \A i, j \in DOMAIN accepted_concepts :
    i # j => accepted_concepts[i].concept_id # accepted_concepts[j].concept_id

\* C5: visit_count equals the number of distinct concept IDs dispatched so far
\* (the size of visited), also when the seed list repeats an ID.
C5_VisitCountIsDistinctCount ==
  /\ visit_count = Len(visited)
  /\ \A i, j \in DOMAIN visited : i # j => visited[i] # visited[j]

\* C6: no concept ID is in visited and in pending at the same time.
C6_VisitedNotPending ==
  \A i \in DOMAIN pending : ~Contains(visited, pending[i].concept_id)

\* C6 witness: an iteration ended with visited concepts and a queued suggestion
C6_Witness ==
  /\ pc = "loop" /\ iteration >= 1 /\ visited # <<>>
  /\ \E i \in DOMAIN pending : pending[i].depth >= 1

\* C7: the outcome is resolved exactly when accepted_concepts is non-empty,
\* otherwise fallback exactly when best_fallback is set, otherwise unresolved;
\* and it carries the state's visit_count, stop_reason and the IDs of pending in
\* queue order.
C7_FinalizeStatus ==
  outcome # <<>> =>
    /\ (outcome[1].status = "resolved") <=> (accepted_concepts # <<>>)
    /\ (outcome[1].status = "fallback") <=>
         (accepted_concepts = <<>> /\ best_fallback # <<>>)
    /\ (outcome[1].status = "unresolved") <=>
         (accepted_concepts = <<>> /\ best_fallback = <<>>)
    /\ outcome[1].visit_count = visit_count
    /\ outcome[1].stop_reason = stop_reason
    /\ outcome[1].pending_candidates = [i \in DOMAIN pending |-> pending[i].concept_id]

\* C7 witness: a fallback outcome with queued candidates left
C7_Witness ==
  /\ outcome # <<>> /\ outcome[1].status = "fallback"
  /\ Len(outcome[1].pending_candidates) >= 2 /\ outcome[1].stop_reason = "timeout"

\* C8: every entry of the returned list carries a resolution outcome with one
\* of the three statuses and the fields stop_reason, history and visit_count.
C8_EveryEntryHasOutcome ==
  orch_pc = "returned" =>
    \A k \in DOMAIN final_concept_sets :
      /\ "resolution_outcome" \in DOMAIN final_concept_sets[k]
      /\ final_concept_sets[k].resolution_outcome.status
           \in {"resolved", "fallback", "unresolved"}
      /\ {"stop_reason", "history", "visit_count"}
           \subseteq DOMAIN final_concept_sets[k].resolution_outcome

\* C9: the returned list is in submission order.
C9_SubmissionOrder ==
  orch_pc = "returned" =>
    \A k \in DOMAIN final_concept_sets : final_concept_sets[k].name = k

\* C10: the returned list has exactly one entry per submitted concept set: the
\* empty entry with the set's name when its worker raised, otherwise the result
\* its worker returned; every worker ran to its end.
C10_OneEntryPerSet ==
  orch_pc = "returned" =>
    /\ Len(final_concept_sets) = NumSets
    /\ \A cs \in ConceptSets :
         /\ futures[cs].state \in {"done", "failed"}
         /\ Cardinality({k \in DOMAIN final_concept_sets :
                           final_concept_sets[k].name = cs}) = 1
         /\ \E k \in DOMAIN final_concept_sets :
              final_concept_sets[k] =
                IF futures[cs].state = "failed"
                THEN [name |-> cs, included_concepts |-> <<>>, excluded_concepts |-> <<>>]
                ELSE futures[cs].result[1]

\* C10 witness: one worker raised, the others returned, out of submission order
C10_Witness ==
  /\ orch_pc = "returned"
  /\ Cardinality({cs \in ConceptSets : futures[cs].state = "failed"}) = 1
  /\ \E cs \in ConceptSets :
       futures[cs].state = "done" /\ futures[cs].result[1].included_concepts # <<>>
  /\ final_concept_sets[1].name # 1

\* C11: when the main loop ends because pending is empty, no concept beyond the
\* depth bound was ever queued or visited, the outcome's stop_reason is
\* queue_exhausted, and its status is unresolved when nothing was accepted and
\* no fallback is set.
C11_QueueExhausted ==
  (outcome # <<>> /\ pending = <<>> /\ visit_count < max_visits
     /\ stop_reason \notin StopReasons) =>
    /\ \A k \in DOMAIN depth_map : depth_map[k] <= Max(max_depth, 0)
    /\ \A i \in DOMAIN visited : visited[i] \in DOMAIN depth_map
    /\ outcome[1].stop_reason = "queue_exhausted"
    /\ (accepted_concepts = <<>> /\ best_fallback = <<>>) =>
         outcome[1].status = "unresolved"

\* C12: when the short-circuit rule accepted a concept, the final outcome is
\* resolved and its evidence records the match type of that acceptance.
C12_ShortCircuitEvidence ==
  (outcome # <<>> /\ short_circuit # <<>>) =>
    /\ outcome[1].status = "resolved"
    /\ outcome[1].evidence = <<short_circuit[1].evidence>>

\* C15: when every Vocabulary Gateway call fails, the worker returns a
\* resolution outcome with status unresolved.
C15_GatewayDownUnresolved ==
  (pc = "returned" /\ gateway_down) =>
    /\ outcome # <<>>
    /\ outcome[1].status = "unresolved"
    /\ "resolution_outcome" \in DOMAIN result[1]

\* C16: when the main loop ends because visit_count reached max_visits while
\* pending is not empty, the outcome's stop_reason is not null.
C16_StopReasonRecorded ==
  (outcome # <<>> /\ visit_count >= max_visits /\ pending # <<>>) =>
    outcome[1].stop_reason # NoReason

\* C13 (as claimed): every concept of the fetched batch that satisfies the
\* short-circuit rule is in accepted_concepts when the iteration ends, whatever
\* the analyzer answered.
C13_EveryShortCircuitHitAccepted ==
  [][/\ pc = "analyze" =>
          \A i \in DOMAIN concepts :
            concepts[i].details.match \in {"exact", "strong_token"} =>
              \E x \in DOMAIN accepted_concepts' :
                accepted_concepts'[x].concept_id = concepts[i].concept_id
     /\ (pc = "fetch" /\ pc' = "finalize") =>
          \A i \in DOMAIN concepts' :
            concepts'[i].details.match \in {"exact", "strong_token"} =>
              \E x \in DOMAIN accepted_concepts' :
                accepted_concepts'[x].concept_id = concepts'[i].concept_id]_vars

\* C13 (amended): the first concept of the fetched batch, in batch order, that
\* satisfies the short-circuit rule is in accepted_concepts when the iteration
\* ends, whatever the analyzer did: negative decisions, a failed call, or no
\* decision at all.
C13_FirstShortCircuitHitAccepted ==
  [][/\ pc = "analyze" =>
          LET hits == {i \in DOMAIN concepts :
                         concepts[i].details.match \in {"exact", "strong_token"}}
          IN \A i \in hits : (\A k \in hits : i <= k) =>
               \E x \in DOMAIN accepted_concepts' :
                 accepted_concepts'[x].concept_id = concepts[i].concept_id
     /\ (pc = "fetch" /\ pc' = "finalize") =>
          LET hits == {i \in DOMAIN concepts' :
                         concepts'[i].details.match \in {"exact", "strong_token"}}
          IN \A i \in hits : (\A k \in hits : i <= k) =>
               \E x \in DOMAIN accepted_concepts' :
                 accepted_concepts'[x].concept_id = concepts'[i].concept_id]_vars

\* C13 witness: the second concept of a batch of two satisfied the rule, the
\* analyzer rejected both concepts, and the iteration ended with it accepted
C13_Witness ==
  /\ pc = "loop" /\ visited = <<1, 2>>
  /\ ~oracle[1].raised /\ Len(oracle[1].decisions) = 2
  /\ \A i \in 1..2 : ~oracle[1].decisions[i].is_correct_for_term
  /\ short_circuit # <<>> /\ short_circuit[1].concept_id = 2
  /\ accepted_concepts = <<[concept_id |-> 2]>>

\* Scenario A: seeds [100, 200] (here 1, 2), 100 accepted, 200 rejected with the
\* suggestion [300] (here 3)
ScenarioADecisions ==
  <<[concept_id |-> 1, is_standard |-> TRUE, is_correct_for_term |-> TRUE,
     suggested_new_candidates |-> <<>>],
    [concept_id |-> 2, is_standard |-> FALSE, is_correct_for_term |-> FALSE,
     suggested_new_candidates |-> <<3>>]>>

\* C18: the state update appends a suggested ID to pending if and only if, when
\* it is examined, it is neither visited nor pending and the depth of its batch
\* slot plus one is at most max_depth; nothing else is appended, the queued
\* items keep their order, and only the batch IDs are added to visited and
\* counted.  In Scenario A the state after iteration 1 is accepted = [100],
\* pending = [(300, 1)], visited = [100, 200].
C18_EnqueueIffNewAndWithinDepth ==
  [][pc = "analyze" =>
       LET decs == DecisionsUsed
           base == SelectSeq(pending, LAMBDA it : ~Contains(ids, it.concept_id))
       IN /\ Len(pending') >= Len(base)
          /\ SubSeq(pending', 1, Len(base)) = base
          /\ \A k \in (Len(base) + 1)..Len(pending') :
               /\ ~Contains(visited', pending'[k].concept_id)
               /\ \A m \in 1..(k - 1) : pending'[m].concept_id # pending'[k].concept_id
               /\ pending'[k].depth <= max_depth
               /\ \E i \in DOMAIN decs :
                    /\ Contains(decs[i].suggested_new_candidates, pending'[k].concept_id)
                    /\ i \in DOMAIN depths => pending'[k].depth = depths[i] + 1
          /\ \A i \in DOMAIN decs \cap DOMAIN depths :
               \A j \in DOMAIN decs[i].suggested_new_candidates :
                 (/\ ~Contains(visited', decs[i].suggested_new_candidates[j])
                  /\ depths[i] + 1 <= max_depth)
                 => Contains(PendingIds(pending'), decs[i].suggested_new_candidates[j])
          /\ Elems(visited') = Elems(visited) \cup Elems(ids)
          /\ visit_count' = visit_count + Len(ids)
          /\ (/\ ids = <<1, 2>> /\ max_depth = 1 /\ batch_size = 2 /\ pending = <<>>
              /\ short_circuit = <<>> /\ decs = ScenarioADecisions)
             => /\ accepted_concepts' = <<[concept_id |-> 1]>>
                /\ pending' = <<QueueItem(3, 1)>>
                /\ visited' = <<1, 2>>
                /\ pc' = "loop"]_vars

\* C18 witness: the state after iteration 1 of Scenario A
C18_Witness ==
  /\ pc = "loop" /\ iteration = 1 /\ max_depth = 1 /\ batch_size = 2
  /\ ~oracle[1].raised /\ oracle[1].decisions = ScenarioADecisions
  /\ accepted_concepts = <<[concept_id |-> 1]>>
  /\ pending = <<QueueItem(3, 1)>> /\ visited = <<1, 2>> /\ visit_count = 2

\* C19: every item a state update appends to pending was suggested by a
\* decision that belongs to a batch concept (by its position or by its
\* concept_id) and has the depth of that batch concept plus one, for every
\* analyzer output: more or fewer decisions than batch concepts, or another
\* order.
C19_ChildDepthIsParentPlusOne ==
  [][pc = "analyze" =>
       LET decs == DecisionsUsed
           base == SelectSeq(pending, LAMBDA it : ~Contains(ids, it.concept_id))
       IN \A k \in (Len(base) + 1)..Len(pending') :
            \E i \in DOMAIN decs :
              /\ Contains(decs[i].suggested_new_candidates, pending'[k].concept_id)
              /\ \E j \in DOMAIN ids :
                   /\ j = i \/ ids[j] = decs[i].concept_id
                   /\ pending'[k].depth = depths[j] + 1]_vars

\* C20: when the analyzer call fails the worker goes on with one negative
\* decision per batch concept: every batch concept is visited, visit_count grew
\* by the batch size, no decision accepted a concept, no candidate was queued,
\* and the worker is at the loop condition or halted by a check after the
\* update, without an outcome yet.
C20_OracleFailureIsNegative ==
  [][(pc = "analyze" /\ oracle[1].raised) =>
       /\ \A i \in DOMAIN ids : Contains(visited', ids[i])
       /\ visit_count' = visit_count + Len(ids)
       /\ accepted_concepts' = accepted_concepts
       /\ pending' = SelectSeq(pending, LAMBDA it : ~Contains(ids, it.concept_id))
       /\ outcome' = <<>>
       /\ \/ pc' = "loop" /\ stop_reason' = stop_reason
          \/ pc' = "finalize" /\ stop_reason' \in {"enough_matches", "stagnation"}]_vars

\* C20 witness: the analyzer failed on a batch of two; both are visited, nothing
\* is accepted and the seed that was queued behind them is still queued
C20_Witness ==
  /\ pc = "loop" /\ oracle[1].raised
  /\ visited = <<1, 2>> /\ visit_count = 2
  /\ accepted_concepts = <<>> /\ pending = <<QueueItem(3, 0)>>

\* C17: execute_query is called only after validate_sql was called on the same
\* SQL and answered valid, with execute = true and an estimated cost that is not
\* above config.max_query_cost_usd, and with a limit of at most 1000; when the
\* cost is above the limit a ValueError is raised and execute_query is never
\* called; when the validation is invalid a result without rows is returned and
\* execute_query is never called.
C17_ExecuteOnlyAfterValidation ==
  LET exec == {k \in DOMAIN backend_calls : backend_calls[k].op = "execute_query"}
  IN /\ \A k \in exec :
          /\ \E m \in 1..(k - 1) :
               /\ backend_calls[m].op = "validate_sql"
               /\ backend_calls[m].sql = backend_calls[k].sql
          /\ validation # <<>> /\ validation[1].valid
          /\ request.execute
          /\ validation[1].estimated_cost_usd # <<>> =>
               validation[1].estimated_cost_usd[1] <= config.max_query_cost_usd
          /\ backend_calls[k].limit[1] <= MAX_ROW_LIMIT
     /\ (/\ validation # <<>> /\ validation[1].valid /\ request.execute
         /\ validation[1].estimated_cost_usd # <<>>
         /\ validation[1].estimated_cost_usd[1] > config.max_query_cost_usd)
        => /\ exec = {}
           /\ q_pc = "raised" /\ q_error = <<"Query exceeds cost limit">>
     /\ (validation # <<>> /\ ~validation[1].valid)
        => /\ exec = {}
           /\ q_pc = "returned"
           /\ query_result # <<>> /\ query_result[1].results = <<>>

\* C17 witness: 5000 rows were requested, the cost was exactly the limit, and the
\* query was executed with limit 1000
C17_Witness ==
  /\ q_pc = "returned" /\ request.limit = 5 * MAX_ROW_LIMIT
  /\ Len(backend_calls) = 2
  /\ backend_calls[2].op = "execute_query" /\ backend_calls[2].limit = <<MAX_ROW_LIMIT>>
  /\ validation[1].estimated_cost_usd = <<config.max_query_cost_usd>>
  /\ query_result[1].results # <<>>

\* C21: when a short-circuit acceptance fills accepted_concepts and the worker
\* halts with stop_reason = enough_matches, the batch in flight has been booked
\* before the halt: every batch ID is in visited and visit_count grew by the
\* batch size.
C21_BookkeepingBeforeShortCircuitHalt ==
  [][(pc = "fetch" /\ pc' = "finalize") =>
       /\ stop_reason' = "enough_matches"
       /\ Len(accepted_concepts') >= MAX_ACCEPTED_PER_SET
       /\ \A i \in DOMAIN ids : Contains(visited', ids[i])
       /\ visit_count' = visit_count + Len(ids)]_vars

\* C22: each completed iteration appends one entry to history and history never
\* holds more than HISTORY_LIMIT entries: after N completed iterations it has
\* min(N, HISTORY_LIMIT) entries, and the outcome carries them.
C22_HistoryPerIteration ==
  /\ Len(history) <= HISTORY_LIMIT
  /\ pc = "loop" => Len(history) = Min(iteration, HISTORY_LIMIT)
  /\ outcome # <<>> =>
       /\ outcome[1].history = history
       /\ visited # <<>> => outcome[1].history # <<>>

\* the items of queue p at the positions S, in queue order
ItemsAt(p, S) ==
  [k \in 1..Cardinality(S) |->
     p[CHOOSE i \in S : Cardinality({j \in S : j < i}) = k - 1]]

\* C23: when _queue_next_batch returns a batch, the batch is the first
\* min(batch_size, max_visits - visit_count) items of pending whose depth is at
\* most max_depth, in queue order, and the new pending is the old pending without
\* exactly those items, the others in their old order; when it returns no batch,
\* pending and the iteration counter of the queue are unchanged.
C23_BatchIsQueuePrefix ==
  [][(pc = "loop" /\ iteration' = iteration + 1 /\ stop_reason' = stop_reason) =>
       LET n == Min(batch_size, max_visits - visit_count)
           eligible == {i \in DOMAIN pending : pending[i].depth <= max_depth}
           taken == {i \in eligible : Cardinality({k \in eligible : k < i}) < n}
           batch == ItemsAt(pending, taken)
       IN IF pc' = "fetch"
          THEN /\ ids' = [k \in DOMAIN batch |-> batch[k].concept_id]
               /\ depths' = [k \in DOMAIN batch |-> batch[k].depth]
               /\ ids' # <<>>
               /\ pending' = ItemsAt(pending, DOMAIN pending \ taken)
          ELSE /\ pc' = "finalize"
               /\ \/ resolved
                  \/ visit_count >= max_visits
                  \/ pending = <<>>
                  \/ pending[1].depth > max_depth
               /\ pending' = pending
               /\ qs_iteration' = qs_iteration]_vars

\* C23 witness: the remaining visit slot capped a batch of batch_size 2 to the
\* head of the queue, and the second queued concept stayed queued
C23_Witness ==
  /\ pc = "fetch" /\ batch_size = 2 /\ max_visits = 2 /\ visit_count = 1
  /\ Len(ids) = 1 /\ Len(pending) = 1 /\ depths = <<1>> /\ pending[1].depth = 1

\* C24: the wall-clock budget is tested only at the start of an iteration,
\* before a batch is taken.  When the test fires, stop_reason becomes timeout
\* and pending, visited, visit_count and accepted_concepts stay as the previous
\* iteration left them; an iteration that has passed the test never ends by
\* timeout, and its state update runs even when the budget expired during its
\* gateway or analyzer calls.
C24_TimeoutOnlyAtIterationStart ==
  [][/\ (stop_reason' = "timeout" /\ stop_reason # "timeout") =>
          /\ pc = "loop" /\ budget_exceeded /\ pc' = "finalize"
          /\ UNCHANGED <<pending, visited, visit_count, accepted_concepts>>
     /\ (pc = "loop" /\ LoopCond /\ budget_exceeded /\ pc' # pc) =>
          stop_reason' = "timeout"
     /\ (pc \in {"fetch", "analyze"} /\ budget_exceeded) =>
          /\ stop_reason' # "timeout"
          /\ pc = "analyze" =>
               /\ \A i \in DOMAIN ids : Contains(visited', ids[i])
               /\ visit_count' = visit_count + Len(ids)]_vars

\* C24 witness: the first iteration booked its batch, the budget expired, and
\* the test at the start of the second iteration stopped the run with a
\* concept left in the queue
C24_Witness ==
  /\ pc = "finalize" /\ stop_reason = "timeout" /\ budget_exceeded
  /\ iteration = 2 /\ visit_count = 1 /\ visited # <<>> /\ pending # <<>>

\* C25: no run of the exploration loop sets best_fallback, so the outcome status
\* is resolved or unresolved and never fallback, whatever the seeds, the gateway
\* and the analyzer do.
C25_NeverFallback ==
  /\ best_fallback = <<>>
  /\ outcome # <<>> =>
       /\ outcome[1].status \in {"resolved", "unresolved"}
       /\ outcome[1].concept = <<>>
       /\ outcome[1].reason # "best_nonstandard_match"

\* C25 witness: the run visited two concepts, accepted none and stopped at the
\* visit limit with a candidate still queued; its outcome is unresolved
C25_Witness ==
  /\ outcome # <<>> /\ outcome[1].status = "unresolved"
  /\ visit_count = 2 /\ Len(visited) = 2 /\ outcome[1].pending_candidates # <<>>

\* C26: with batch_size >= 1 and max_depth >= 0 the head recorded in
\* last_head_id at the end of an iteration is the first concept of the next
\* batch and leaves pending, so the head seen after the next update differs from
\* it: stagnation_count is 0 in every reachable state, no queued item is deeper
\* than max_depth, and stop_reason is never stagnation or depth_limit.
C26_HeadAlwaysDispatched ==
  (max_depth >= 0 /\ batch_size >= 1) =>
    /\ stagnation_count = 0
    /\ stop_reason \notin {"stagnation", "depth_limit"}
    /\ \A i \in DOMAIN pending : pending[i].depth <= max_depth
    /\ (pc = "loop" /\ iteration >= 1 /\ pending # <<>>) =>
         last_head_id = <<pending[1].concept_id>>
    /\ (pc \in {"fetch", "analyze"} /\ last_head_id # <<>>) =>
         /\ ids[1] = last_head_id[1]
         /\ ~Contains(PendingIds(pending), last_head_id[1])

\* C26 witness: two updates in a row left a queue behind, each with another head
C26_Witness ==
  /\ pc = "loop" /\ iteration = 2 /\ Len(visited) = 2 /\ pending # <<>>
  /\ last_head_id = <<pending[1].concept_id>> /\ stagnation_count = 0

\* C27: no discovered concept is lost: when the outcome is produced, every
\* concept ID that was ever queued (the keys of depth_map: the seeds and the
\* queued suggestions) is in visited or in the outcome's pending_candidates, on
\* every halting path.
C27_NoConceptLost ==
  outcome # <<>> =>
    \A k \in DOMAIN depth_map :
      Contains(visited, k) \/ Contains(outcome[1].pending_candidates, k)

\* C28: every concept_id in accepted_concepts is the ID of a concept that was
\* dispatched in a batch of this run (a visited concept or a concept of the batch
\* in flight); a decision that names a concept outside the batch, or sits at an
\* index beyond the batch, accepts nothing.
C28_AcceptedWereDispatched ==
  \A x \in DOMAIN accepted_concepts :
    \/ Contains(visited, accepted_concepts[x].concept_id)
    \/ Contains(ids, accepted_concepts[x].concept_id)

\* C29: exploration is level-ordered: at every iteration boundary the depths of
\* the items of pending do not decrease from head to tail and the tail is at
\* most one level below the head; depth_map holds the depth of every queued
\* item, and an entry of depth_map is never overwritten.
C29_LevelOrdered ==
  /\ [](pc = "loop" =>
          /\ \A i, j \in DOMAIN pending :
               i < j => pending[i].depth <= pending[j].depth
          /\ pending # <<>> =>
               pending[Len(pending)].depth - pending[1].depth <= 1)
  /\ [](\A i \in DOMAIN pending :
          /\ pending[i].concept_id \in DOMAIN depth_map
          /\ depth_map[pending[i].concept_id] = pending[i].depth)
  /\ [][\A k \in DOMAIN depth_map :
          k \in DOMAIN depth_map' /\ depth_map'[k] = depth_map[k]]_vars

\* ----------------------------------------------------------------------------
\* C30 (as stated): once a cached function has returned success = false for a
\* key, every later call with that key returns the same failure without
\* contacting the gateway, until the entry is evicted or clear_cache is called.
\* Two threads that miss the same key together refute it: the result stored
\* first stays, the other result is returned to its caller and dropped.
C30_ReturnedFailureServedAgain ==
  [][calls_made' = calls_made + 1 =>
       \A f \in failures_returned :
         /\ \A w \in Workers :
              in_flight'[w] # in_flight[w] =>
                ~(in_flight'[w][1].fn = f.fn /\ in_flight'[w][1].key = f.key)
         /\ (in_flight' = in_flight /\ returned'[1].fn = f.fn
                                    /\ returned'[1].key = f.key) =>
              (returned'[1].value = f.value /\ gateway_calls' = gateway_calls)]_vars

\* the keys of the caches are canonical: the query in lower case without
\* surrounding whitespace, the vocabularies and the concept IDs sorted
CanonicalKeys ==
  /\ \A k \in CacheKeys(cache["search"]) :
       /\ lower(k.query) = k.query
       /\ (k.query # <<>> => Head(k.query) # " " /\ k.query[Len(k.query)] # " ")
       /\ \A i, j \in DOMAIN k.vocab_tuple :
            i < j => VocabRank[k.vocab_tuple[i]] < VocabRank[k.vocab_tuple[j]]
  /\ \A k \in CacheKeys(cache["details"]) :
       \A i, j \in DOMAIN k.concept_ids_tuple :
         i < j => k.concept_ids_tuple[i] < k.concept_ids_tuple[j]

\* C30 (amended): each cache holds at most maxsize entries under canonical
\* keys, one per key. A call whose key is cached returns the stored result,
\* failure or success, without contacting the gateway, whichever thread makes
\* it; only a call whose key is not cached contacts the gateway. The result of
\* a call that missed is stored, a failure like a success, unless the key was
\* stored meanwhile. A stored result never changes, and leaves the cache only
\* by clear_cache or as the least recently used entry of a full cache.
C30_StoredResultServed ==
  /\ [](/\ CanonicalKeys
        /\ \A fn \in CacheNames :
             /\ Len(cache[fn]) <= cache_maxsize[fn]
             /\ \A i, j \in DOMAIN cache[fn] :
                  i # j => cache[fn][i].key # cache[fn][j].key)
  /\ [][/\ calls_made' = calls_made + 1 =>
             /\ \A w \in Workers :
                  in_flight'[w] # in_flight[w] =>
                    /\ ~CacheHas(cache[in_flight'[w][1].fn], in_flight'[w][1].key)
                    /\ gateway_calls' = gateway_calls + 1
             /\ in_flight' = in_flight =>
                  /\ gateway_calls' = gateway_calls
                  /\ CacheHas(cache'[returned'[1].fn], returned'[1].key)
                  /\ returned'[1].value =
                       CacheValue(cache'[returned'[1].fn], returned'[1].key)
                  /\ returned'[1].hit =
                       CacheHas(cache[returned'[1].fn], returned'[1].key)
        /\ \A w \in Workers :
             (in_flight[w] # <<>> /\ in_flight'[w] = <<>>) =>
               /\ CacheHas(cache'[in_flight[w][1].fn], in_flight[w][1].key)
               /\ ~CacheHas(cache[in_flight[w][1].fn], in_flight[w][1].key) =>
                    CacheValue(cache'[in_flight[w][1].fn], in_flight[w][1].key)
                      = returned'[1].value
        /\ \A fn \in CacheNames : \A k \in CacheKeys(cache[fn]) :
             IF CacheHas(cache'[fn], k)
             THEN CacheValue(cache'[fn], k) = CacheValue(cache[fn], k)
             ELSE \/ cache' = [g \in CacheNames |-> <<>>]
                  \/ /\ Len(cache[fn]) = cache_maxsize[fn]
                     /\ cache[fn][1].key = k
                     /\ cache'[fn] # <<>>
                     /\ ~CacheHas(cache[fn], cache'[fn][Len(cache'[fn])].key)]_vars

\* C30: one thread's call failed at the gateway, and the failure was then
\* served from the cache to the next call with the same key: the
\* gateway was contacted once for two completed calls
C30_Witness ==
  /\ athena_available
  /\ calls_made = 2 /\ gateway_calls = 1
  /\ \A w \in Workers : in_flight[w] = <<>>
  /\ returned # <<>> /\ returned[1].hit /\ ~returned[1].value.success

====
